---- MODULE Spec2Model ----
(***************************************************************************)
(* Model of the token validation and key-material caching code of          *)
(* bookverse-core: auth/oidc.py (get_oidc_configuration, get_jwks,         *)
(* get_public_key, clear_cache) and auth/jwt_auth.py (validate_jwt_token,  *)
(* AuthUser).  Each caller executes the functions statement group by       *)
(* statement group; the identity provider and the clock are the            *)
(* environment.                                                            *)
(***************************************************************************)
EXTENDS Integers, Sequences, FiniteSets, TLC

VARIABLES
    DEVELOPMENT_MODE,     \* jwt_auth.py:66, fixed for the life of the process
    now,                  \* the wall clock, datetime.now().timestamp()
    published,            \* the key list the provider's JWKS endpoint serves
    oidc_config,          \* oidc.py:67  _oidc_config
    jwks,                 \* oidc.py:68  _jwks
    jwks_last_updated,    \* oidc.py:69  _jwks_last_updated
    pc,                   \* per caller: position in the code
    call,                 \* per caller: the running (or last finished) call
    discReqs,             \* discovery requests issued since the last clear_cache
    ncalls,               \* calls started so far
    key_out_since,        \* when the provider stopped publishing K1, if observed
    engine,               \* session.py  _engine
    session_factory,      \* session.py  _session_factory
    db                    \* per caller: its use of a database session

authvars == <<DEVELOPMENT_MODE, now, published, oidc_config, jwks,
              jwks_last_updated, pc, call, discReqs, ncalls, key_out_since>>

dbvars == <<engine, session_factory, db>>

vars == <<authvars, dbvars>>

\* ------------------------------------------------------------------ bounds
MaxCalls == 3
MaxTime == 2
MaxUses == 2

Callers == {1, 2}

\* --------------------------------------------------------- configuration
OIDC_AUTHORITY == "https://dev-auth.bookverse.com"
OIDC_AUDIENCE == "bookverse:api"
JWT_ALGORITHM == "RS256"
AUTH_ENABLED == TRUE
\* JWKS_CACHE_DURATION is read from the environment (default 3600); the model
\* runs the process with JWKS_CACHE_DURATION=1.
JWKS_CACHE_DURATION == 1

\* ------------------------------------------------------- optional values
None == [tag |-> "None"]
Some(v) == [tag |-> "Some", val |-> v]
IsNone(o) == o.tag = "None"

\* ------------------------------------------------------------- provider
JWK(kid, mat) == [kid |-> kid, mat |-> mat]
K1 == JWK("k1", "m1")
K2 == JWK("k2", "m2")
K1x == JWK("k1", "m3")

\* What the JWKS endpoint may publish: the "keys" list of the JSON body.
KeySets == {<<>>, <<K1>>, <<K1, K2>>, <<K1x, K1>>}

OtherIssuer == "https://idp.example.com"
ProviderJwksUri == "https://idp.example.com/keys"

\* Documents the discovery endpoint may answer with ("" is a missing jwks_uri).
ProviderDocs ==
    { [issuer |-> OIDC_AUTHORITY, jwks_uri |-> ProviderJwksUri, demo_mode |-> FALSE],
      [issuer |-> OtherIssuer, jwks_uri |-> ProviderJwksUri, demo_mode |-> FALSE],
      [issuer |-> OIDC_AUTHORITY, jwks_uri |-> "", demo_mode |-> FALSE] }

\* ---------------------------------------------------------------- tokens
FarFuture == MaxTime + 1

Token(wf, alg, kid, sig, exp, iss, aud, sub, scope) ==
    [wf |-> wf, alg |-> alg, kid |-> kid, sig |-> sig, exp |-> exp,
     iss |-> iss, aud |-> aud, sub |-> sub, scope |-> scope]

GoodToken(kid, sig, sub) ==
    Token(TRUE, JWT_ALGORITHM, kid, sig, FarFuture, OIDC_AUTHORITY,
          OIDC_AUDIENCE, sub, <<"bookverse:api">>)

\* The scope claim is a string, modelled as a sequence of pieces: " " is
\* whitespace, every other piece is a run of non-blank characters.
Tokens ==
    { GoodToken("k1", "m1", "u1"),
      [GoodToken("k2", "m2", "u2") EXCEPT !.scope = <<"openid", " ", "bookverse:api">>],
      GoodToken("k1", "m3", "u3"),
      GoodToken("", "m1", "u1"),
      [GoodToken("k1", "m1", "u1") EXCEPT !.wf = FALSE],
      [GoodToken("k1", "m1", "u1") EXCEPT !.alg = "HS256"],
      [GoodToken("k1", "m1", "u1") EXCEPT !.exp = 1],
      [GoodToken("k1", "m1", "u1") EXCEPT !.iss = OtherIssuer],
      [GoodToken("k1", "m1", "u1") EXCEPT !.aud = "other:api"],
      [GoodToken("k1", "m1", "u1") EXCEPT !.sub = ""],
      [GoodToken("k1", "m1", "u1") EXCEPT !.scope = <<>>],
      [GoodToken("k1", "m1", "u1") EXCEPT !.scope = <<"bookverse:api", "x">>],
      [GoodToken("k1", "m1", "u1") EXCEPT !.sub = "", !.scope = <<"openid">>] }

NoToken == Token(FALSE, "", "", "", 0, "", "", "", <<>>)

\* -------------------------------------------------------- pure functions
\* str.split(): the whitespace-separated words of a string (jwt_auth.py:195).
RECURSIVE SplitFrom(_, _, _, _)
SplitFrom(s, i, cur, acc) ==
    IF i > Len(s)
    THEN IF cur = "" THEN acc ELSE Append(acc, cur)
    ELSE IF s[i] = " "
         THEN SplitFrom(s, i + 1, "", IF cur = "" THEN acc ELSE Append(acc, cur))
         ELSE SplitFrom(s, i + 1, cur \o s[i], acc)

split(s) == SplitFrom(s, 1, "", <<>>)

\* claims.get("scope", "").split() if claims.get("scope") else []
scopes_of(claims) == IF claims.scope # <<>> THEN split(claims.scope) ELSE <<>>

InSeq(x, s) == \E i \in 1..Len(s) : s[i] = x

\* oidc.py:170-174: the first key, in stored order, whose kid is the header's.
\* ScanKeys_first_key is the scan that falls back to the first key of the set.
ScanKeys_first_key(keys, kid, i) ==
    IF Len(keys) = 0
    THEN [kind |-> "ValueError", msg |-> "No matching key found for kid"]
    ELSE [kind |-> "key", key |-> keys[1]]

\* ScanKeys_last_match is the scan that keeps the last key with the kid.
ScanKeys_last_match(keys, kid, i) ==
    LET hits == {j \in 1..Len(keys) : keys[j].kid = kid} IN
    IF hits = {}
    THEN [kind |-> "ValueError", msg |-> "No matching key found for kid"]
    ELSE [kind |-> "key", key |-> keys[CHOOSE j \in hits : \A h \in hits : h <= j]]

RECURSIVE ScanKeys(_, _, _)
ScanKeys(keys, kid, i) ==
    IF i > Len(keys)
    THEN [kind |-> "ValueError", msg |-> "No matching key found for kid"]
    ELSE IF keys[i].kid = kid
         THEN [kind |-> "key", key |-> keys[i]]
         ELSE ScanKeys(keys, kid, i + 1)

\* oidc.py:162-174.  jwks is the value get_jwks returned (an optional key list).
\* get_public_key_sole_key takes the only key of the set for a header
\* without a kid.
get_public_key_sole_key(token_header, jwks_value) ==
    IF IsNone(jwks_value)
    THEN [kind |-> "AttributeError", msg |-> "'NoneType' object has no attribute 'get'"]
    ELSE IF token_header.kid = ""
         THEN IF Len(jwks_value.val) = 1
              THEN [kind |-> "key", key |-> jwks_value.val[1]]
              ELSE [kind |-> "ValueError", msg |-> "Token header missing 'kid' field"]
         ELSE ScanKeys(jwks_value.val, token_header.kid, 1)

get_public_key(token_header, jwks_value) ==
    IF token_header.kid = ""
    THEN [kind |-> "ValueError", msg |-> "Token header missing 'kid' field"]
    ELSE IF IsNone(jwks_value)
         THEN [kind |-> "AttributeError", msg |-> "'NoneType' object has no attribute 'get'"]
         ELSE ScanKeys(jwks_value.val, token_header.kid, 1)

\* jose.jwt.get_unverified_header (jwt_auth.py:178).
get_unverified_header(token) ==
    IF token.wf
    THEN [kind |-> "header", alg |-> token.alg, kid |-> token.kid]
    ELSE [kind |-> "JWTError", msg |-> "Error decoding token headers."]

\* jose.jwt.decode with algorithms=[JWT_ALGORITHM], audience=OIDC_AUDIENCE,
\* issuer=OIDC_AUTHORITY (jwt_auth.py:184-190), evaluated at clock value t:
\* the algorithm, the signature, then the exp, aud and iss claims.
\* jwt_decode_no_exp is the call with the expiry check switched off.
jwt_decode_no_exp(token, public_key, t) ==
    IF token.alg # JWT_ALGORITHM
    THEN [kind |-> "JWTError", msg |-> "The specified alg value is not allowed"]
    ELSE IF token.sig # public_key.mat
    THEN [kind |-> "JWTError", msg |-> "Signature verification failed."]
    ELSE IF token.aud # OIDC_AUDIENCE
    THEN [kind |-> "JWTError", msg |-> "Invalid audience"]
    ELSE IF token.iss # OIDC_AUTHORITY
    THEN [kind |-> "JWTError", msg |-> "Invalid issuer"]
    ELSE [kind |-> "claims",
          claims |-> [sub |-> token.sub, scope |-> token.scope, roles |-> <<>>,
                      iss |-> token.iss, aud |-> token.aud, exp |-> token.exp]]

jwt_decode(token, public_key, t) ==
    IF token.alg # JWT_ALGORITHM
    THEN [kind |-> "JWTError", msg |-> "The specified alg value is not allowed"]
    ELSE IF token.sig # public_key.mat
    THEN [kind |-> "JWTError", msg |-> "Signature verification failed."]
    ELSE IF token.exp < t
    THEN [kind |-> "JWTError", msg |-> "Signature has expired."]
    ELSE IF token.aud # OIDC_AUDIENCE
    THEN [kind |-> "JWTError", msg |-> "Invalid audience"]
    ELSE IF token.iss # OIDC_AUTHORITY
    THEN [kind |-> "JWTError", msg |-> "Invalid issuer"]
    ELSE [kind |-> "claims",
          claims |-> [sub |-> token.sub, scope |-> token.scope, roles |-> <<>>,
                      iss |-> token.iss, aud |-> token.aud, exp |-> token.exp]]

\* jwt_auth.py:93-125
AuthUser(token_claims) ==
    [user_id |-> token_claims.sub,
     roles |-> token_claims.roles,
     scopes |-> scopes_of(token_claims),
     claims |-> token_claims]

\* jwt_auth.py:202-215: what validate_jwt_token raises for an exception
\* raised inside its try block.
HTTP_401_UNAUTHORIZED == 401
HTTP_503_SERVICE_UNAVAILABLE == 503

HTTPException(code, detail, cause) ==
    [kind |-> "HTTPException", status_code |-> code, detail |-> detail,
     cause |-> cause]

ServiceUnavailable ==
    HTTPException(HTTP_503_SERVICE_UNAVAILABLE,
                  "Authentication service unavailable", "fetch failed")

\* cause is the exception the handler logs.  validate_except_blanket is the
\* handler with the except Exception clause alone.
validate_except_blanket(exc) ==
    HTTPException(HTTP_401_UNAUTHORIZED, "Authentication failed",
                  IF exc.kind = "HTTPException" THEN "HTTPException 503"
                  ELSE exc.msg)

validate_except(exc) ==
    IF exc.kind = "JWTError"
    THEN HTTPException(HTTP_401_UNAUTHORIZED, "Invalid authentication token", exc.msg)
    ELSE HTTPException(HTTP_401_UNAUTHORIZED, "Authentication failed",
                       IF exc.kind = "HTTPException" THEN "HTTPException 503"
                       ELSE exc.msg)

\* jwt_auth.py:192-200: the checks on verified claims.
\* check_claims_no_scope leaves the scope test out; check_claims_scope_first
\* tests the scope before the subject.
check_claims_no_scope(claims) ==
    IF claims.sub = ""
    THEN validate_except([kind |-> "ValueError", msg |-> "Token missing 'sub' claim"])
    ELSE [kind |-> "AuthUser", user |-> AuthUser(claims)]

check_claims_scope_first(claims) ==
    IF ~InSeq("bookverse:api", scopes_of(claims))
    THEN validate_except([kind |-> "ValueError",
                          msg |-> "Token missing required 'bookverse:api' scope"])
    ELSE IF claims.sub = ""
         THEN validate_except([kind |-> "ValueError", msg |-> "Token missing 'sub' claim"])
         ELSE [kind |-> "AuthUser", user |-> AuthUser(claims)]

check_claims(claims) ==
    IF claims.sub = ""
    THEN validate_except([kind |-> "ValueError", msg |-> "Token missing 'sub' claim"])
    ELSE IF ~InSeq("bookverse:api", scopes_of(claims))
         THEN validate_except([kind |-> "ValueError",
                               msg |-> "Token missing required 'bookverse:api' scope"])
         ELSE [kind |-> "AuthUser", user |-> AuthUser(claims)]

\* jwt_auth.py:182-200: key selection, verification, claim checks.
validate_tail(token, header, jwks_value, t) ==
    LET k == get_public_key(header, jwks_value) IN
    IF k.kind # "key" THEN validate_except(k)
    ELSE LET d == jwt_decode(token, k.key, t) IN
         IF d.kind # "claims" THEN validate_except(d)
         ELSE check_claims(d.claims)

\* oidc.py:101-113: the configuration synthesised in development mode.
\* MockConfig_bare_uri is the document with the authority itself as jwks_uri.
MockConfig_bare_uri ==
    [issuer |-> OIDC_AUTHORITY, jwks_uri |-> OIDC_AUTHORITY, demo_mode |-> TRUE]

MockConfig ==
    [issuer |-> OIDC_AUTHORITY,
     jwks_uri |-> OIDC_AUTHORITY \o "/.well-known/jwks.json",
     demo_mode |-> TRUE]

\* ------------------------------------------------------------ call records
Pending == [kind |-> "pending"]

Running(c) == pc[c] \notin {"idle", "done"}

\* A call as it starts: what it was asked, the cache it found, the callers
\* already inside a call, and the function's local variables.
NewCall(opname, token) ==
    [op |-> opname, token |-> token,
     s_oidc |-> oidc_config, s_jwks |-> jwks, s_last |-> jwks_last_updated,
     active |-> {d \in Callers : Running(d)},
     nDisc |-> 0, nJwks |-> 0, disc_failed |-> FALSE, failed |-> FALSE,
     current_time |-> now, jwks_value |-> None, after_clear |-> FALSE,
     cleared_fresh |-> FALSE,
     result |-> Pending]

IdleCall ==
    [op |-> "none", token |-> NoToken,
     s_oidc |-> None, s_jwks |-> None, s_last |-> None,
     active |-> {},
     nDisc |-> 0, nJwks |-> 0, disc_failed |-> FALSE, failed |-> FALSE,
     current_time |-> 0, jwks_value |-> None, after_clear |-> FALSE,
     cleared_fresh |-> FALSE,
     result |-> Pending]

CanStart(c) == ~Running(c) /\ ncalls < MaxCalls

\* Caller c enters a function; the record notes whether c's previous call
\* was clear_cache and whether that call cleared a key set that was not
\* yet due for a refresh; the other callers' records forget c's previous call.
Started(c, rec) ==
    [d \in Callers |->
        IF d = c
        THEN [rec EXCEPT
                 !.after_clear = (pc[c] = "done" /\ call[c].op = "clear_cache"),
                 !.cleared_fresh =
                     /\ pc[c] = "done" /\ call[c].op = "clear_cache"
                     /\ ~IsNone(call[c].s_jwks) /\ ~IsNone(call[c].s_last)
                     /\ call[c].current_time - call[c].s_last.val
                            <= JWKS_CACHE_DURATION]
        ELSE [call[d] EXCEPT !.active = @ \ {c}]]

Overlap(c, d) == c # d /\ (c \in call[d].active \/ d \in call[c].active)

\* database/session.py: a caller's use of a session, before the first one.
\* body is how the code using the session ended, exc the exception being
\* raised, propagated what reached the caller; commits, rollbacks and
\* closes count the calls made on the session.
IdleSession ==
    [fn |-> "none", at |-> "idle", uses |-> 0, body |-> "pending",
     commits |-> 0, rollbacks |-> 0, closes |-> 0,
     commit_raised |-> FALSE, rollback_raised |-> FALSE,
     exc |-> "none", propagated |-> "none"]

Init ==
    /\ DEVELOPMENT_MODE \in BOOLEAN
    /\ now = 0
    /\ published \in KeySets
    /\ oidc_config = None
    /\ jwks = None
    /\ jwks_last_updated = None
    /\ pc = [c \in Callers |-> "idle"]
    /\ call = [c \in Callers |-> IdleCall]
    /\ discReqs = 0
    /\ ncalls = 0
    /\ key_out_since = None
    /\ engine = None
    /\ session_factory = None
    /\ db = [c \in Callers |-> IdleSession]

\* ------------------------------------------------------------ environment
Tick ==
    /\ now < MaxTime
    /\ now' = now + 1
    /\ UNCHANGED <<dbvars, key_out_since, DEVELOPMENT_MODE, published, oidc_config, jwks,
                   jwks_last_updated, pc, call, discReqs, ncalls>>

\* The provider rotates its keys.
Rotate ==
    /\ \E ks \in KeySets \ {published} : published' = ks
    /\ UNCHANGED <<dbvars, key_out_since, DEVELOPMENT_MODE, now, oidc_config, jwks,
                   jwks_last_updated, pc, call, discReqs, ncalls>>

\* The same rotation, with the time at which K1 left the published list
\* written down (and forgotten when K1 is published again).
HasKey(keys, k) == \E i \in 1..Len(keys) : keys[i] = k

RotateObserved ==
    /\ \E ks \in KeySets \ {published} :
          /\ published' = ks
          /\ key_out_since' =
                IF HasKey(ks, K1) THEN None
                ELSE IF HasKey(published, K1) THEN Some(now)
                ELSE key_out_since
    /\ UNCHANGED <<dbvars, DEVELOPMENT_MODE, now, oidc_config, jwks,
                   jwks_last_updated, pc, call, discReqs, ncalls>>

\* ------------------------------------------------- get_oidc_configuration
\* oidc.py:87-92: the memo test and, on a miss, the discovery request.
\* rec is the caller's record on entry.  oidc_check_no_memo is the function
\* without the memo test.
oidc_check_no_memo(c, rec) ==
    /\ discReqs' = discReqs + 1
    /\ call' = Started(c, [rec EXCEPT !.nDisc = @ + 1])
    /\ pc' = [pc EXCEPT ![c] = "oidc_response"]

\* oidc_check_refetch_demo requests again when the cached document is the
\* synthesised one.
oidc_check_refetch_demo(c, rec) ==
    IF IsNone(oidc_config) \/ oidc_config.val.demo_mode
    THEN /\ discReqs' = discReqs + 1
         /\ call' = Started(c, [rec EXCEPT !.nDisc = @ + 1])
         /\ pc' = [pc EXCEPT ![c] = "oidc_response"]
    ELSE /\ call' = Started(c, rec)
         /\ pc' = [pc EXCEPT ![c] = "oidc_return"]
         /\ UNCHANGED discReqs

oidc_check(c, rec) ==
    IF IsNone(oidc_config)
    THEN /\ discReqs' = discReqs + 1
         /\ call' = Started(c, [rec EXCEPT !.nDisc = @ + 1])
         /\ pc' = [pc EXCEPT ![c] = "oidc_response"]
    ELSE /\ call' = Started(c, rec)
         /\ pc' = [pc EXCEPT ![c] = "oidc_return"]
         /\ UNCHANGED discReqs

\* oidc.py:132-136; needs_refresh_ge is the test with >= for >.
needs_refresh_ge(current_time) ==
    \/ IsNone(jwks)
    \/ IsNone(jwks_last_updated)
    \/ current_time - jwks_last_updated.val >= JWKS_CACHE_DURATION

needs_refresh(current_time) ==
    \/ IsNone(jwks)
    \/ IsNone(jwks_last_updated)
    \/ current_time - jwks_last_updated.val > JWKS_CACHE_DURATION

\* oidc.py:130-138: the clock is read, the cache tested and, when a refresh
\* is due, get_oidc_configuration entered.
jwks_check(c, rec) ==
    IF needs_refresh(rec.current_time)
    THEN oidc_check(c, rec)
    ELSE /\ call' = Started(c, rec)
         /\ pc' = [pc EXCEPT ![c] = "jwks_return"]
         /\ UNCHANGED discReqs

\* The call of caller c ends with result r (a value returned or an exception
\* raised to the caller).
Finish(c, r) ==
    /\ call' = [call EXCEPT ![c].result = r]
    /\ pc' = [pc EXCEPT ![c] = "done"]

\* ------------------------------------------------------------ entry points
CallGetOidcConfiguration(c) ==
    /\ CanStart(c)
    /\ ncalls' = ncalls + 1
    /\ oidc_check(c, NewCall("get_oidc_configuration", NoToken))
    /\ UNCHANGED <<dbvars, key_out_since, DEVELOPMENT_MODE, now, published, oidc_config, jwks,
                   jwks_last_updated>>

CallGetJwks(c) ==
    /\ CanStart(c)
    /\ ncalls' = ncalls + 1
    /\ jwks_check(c, NewCall("get_jwks", NoToken))
    /\ UNCHANGED <<dbvars, key_out_since, DEVELOPMENT_MODE, now, published, oidc_config, jwks,
                   jwks_last_updated>>

\* jwt_auth.py:177-180 and 202-208: the header is parsed, then get_jwks is
\* entered.
CallValidateJwtToken(c, tokens) ==
    /\ CanStart(c)
    /\ ncalls' = ncalls + 1
    /\ \E t \in tokens :
         LET rec == NewCall("validate_jwt_token", t)
             h == get_unverified_header(t) IN
         IF h.kind = "header"
         THEN jwks_check(c, rec)
         ELSE /\ call' = Started(c, [rec EXCEPT !.result = validate_except(h)])
              /\ pc' = [pc EXCEPT ![c] = "done"]
              /\ UNCHANGED discReqs
    /\ UNCHANGED <<dbvars, key_out_since, DEVELOPMENT_MODE, now, published, oidc_config, jwks,
                   jwks_last_updated>>

\* jwt_auth.py:218-226
MockClaims ==
    [sub |-> "dev-user",
     scope |-> <<"openid", " ", "profile", " ", "email", " ", "bookverse:api">>,
     roles |-> <<"user", "admin">>]

create_mock_user(c) ==
    /\ CanStart(c)
    /\ ncalls' = ncalls + 1
    /\ call' = Started(c, [NewCall("create_mock_user", NoToken) EXCEPT
                              !.result = [kind |-> "AuthUser",
                                          user |-> AuthUser(MockClaims)]])
    /\ pc' = [pc EXCEPT ![c] = "done"]
    /\ UNCHANGED <<dbvars, key_out_since, DEVELOPMENT_MODE, now, published, oidc_config,
                   jwks, jwks_last_updated, discReqs>>

\* jwt_auth.py:229-231
is_auth_enabled == AUTH_ENABLED

\* oidc.py:177-183; clear_cache_keys_only leaves the configuration cached.
clear_cache_keys_only(c) ==
    /\ CanStart(c)
    /\ jwks' = None
    /\ jwks_last_updated' = None
    /\ discReqs' = 0
    /\ ncalls' = ncalls + 1
    /\ call' = Started(c, [NewCall("clear_cache", NoToken) EXCEPT
                              !.result = [kind |-> "returned"]])
    /\ pc' = [pc EXCEPT ![c] = "done"]
    /\ UNCHANGED <<dbvars, key_out_since, DEVELOPMENT_MODE, now, published, oidc_config>>

\* clear_cache_keeps_stamp leaves _jwks_last_updated as it is.
clear_cache_keeps_stamp(c) ==
    /\ CanStart(c)
    /\ oidc_config' = None
    /\ jwks' = None
    /\ discReqs' = 0
    /\ ncalls' = ncalls + 1
    /\ call' = Started(c, [NewCall("clear_cache", NoToken) EXCEPT
                              !.result = [kind |-> "returned"]])
    /\ pc' = [pc EXCEPT ![c] = "done"]
    /\ UNCHANGED <<dbvars, key_out_since, DEVELOPMENT_MODE, now, published,
                   jwks_last_updated>>

clear_cache(c) ==
    /\ CanStart(c)
    /\ oidc_config' = None
    /\ jwks' = None
    /\ jwks_last_updated' = None
    /\ discReqs' = 0
    /\ ncalls' = ncalls + 1
    /\ call' = Started(c, [NewCall("clear_cache", NoToken) EXCEPT
                              !.result = [kind |-> "returned"]])
    /\ pc' = [pc EXCEPT ![c] = "done"]
    /\ UNCHANGED <<dbvars, key_out_since, DEVELOPMENT_MODE, now, published>>

\* ------------------------------------------------- the rest of the calls
\* oidc.py:116-119, raised to whoever called get_oidc_configuration: its
\* own caller, or get_jwks's try block (oidc.py:150).
oidc_raise(c) ==
    IF call[c].op = "get_oidc_configuration"
    THEN /\ call' = [call EXCEPT ![c].disc_failed = TRUE,
                                 ![c].result = ServiceUnavailable]
         /\ pc' = [pc EXCEPT ![c] = "done"]
    ELSE /\ pc' = [pc EXCEPT ![c] = "jwks_except"]
         /\ call' = [call EXCEPT ![c].disc_failed = TRUE, ![c].failed = TRUE]

\* jwt_auth.py:234-236; is_development_mode_always ignores the configuration.
is_development_mode_always == TRUE

is_development_mode == DEVELOPMENT_MODE

\* oidc.py:93-119: the discovery response arrives.
oidc_response(c) ==
    /\ pc[c] = "oidc_response"
    /\ \/ \E doc \in ProviderDocs :
            /\ oidc_config' = Some(doc)
            /\ pc' = [pc EXCEPT ![c] = "oidc_return"]
            /\ UNCHANGED call
       \/ IF is_development_mode
          THEN /\ oidc_config' = Some(MockConfig)
               /\ pc' = [pc EXCEPT ![c] = "oidc_return"]
               /\ call' = [call EXCEPT ![c].disc_failed = TRUE]
          ELSE /\ oidc_raise(c)
               /\ UNCHANGED oidc_config
    /\ UNCHANGED <<dbvars, key_out_since, DEVELOPMENT_MODE, now, published, jwks,
                   jwks_last_updated, discReqs, ncalls>>

\* oidc.py:121 and, inside get_jwks, oidc.py:138-144: the configuration is
\* returned; get_jwks reads jwks_uri from it and issues the JWKS request.
oidc_return(c) ==
    /\ pc[c] = "oidc_return"
    /\ IF call[c].op = "get_oidc_configuration"
       THEN Finish(c, [kind |-> "returned", val |-> oidc_config])
       ELSE IF IsNone(oidc_config) \/ oidc_config.val.jwks_uri = ""
            THEN /\ pc' = [pc EXCEPT ![c] = "jwks_except"]
                 /\ call' = [call EXCEPT ![c].failed = TRUE]
            ELSE /\ call' = [call EXCEPT ![c].nJwks = @ + 1]
                 /\ pc' = [pc EXCEPT ![c] = "jwks_response"]
    /\ UNCHANGED <<dbvars, key_out_since, DEVELOPMENT_MODE, now, published, oidc_config, jwks,
                   jwks_last_updated, discReqs, ncalls>>

\* oidc.py:145-146: the JWKS response arrives; on success _jwks is assigned.
jwks_response(c) ==
    /\ pc[c] = "jwks_response"
    /\ \/ /\ jwks' = Some(published)
          /\ pc' = [pc EXCEPT ![c] = "jwks_stamp"]
          /\ UNCHANGED call
       \/ /\ pc' = [pc EXCEPT ![c] = "jwks_except"]
          /\ call' = [call EXCEPT ![c].failed = TRUE]
          /\ UNCHANGED jwks
    /\ UNCHANGED <<dbvars, key_out_since, DEVELOPMENT_MODE, now, published, oidc_config,
                   jwks_last_updated, discReqs, ncalls>>

\* oidc.py:147
jwks_stamp(c) ==
    /\ pc[c] = "jwks_stamp"
    /\ jwks_last_updated' = Some(call[c].current_time)
    /\ pc' = [pc EXCEPT ![c] = "jwks_return"]
    /\ UNCHANGED <<dbvars, key_out_since, DEVELOPMENT_MODE, now, published, oidc_config, jwks,
                   call, discReqs, ncalls>>

\* oidc.py:153-156, raised to whoever called get_jwks: its own caller, or
\* validate_jwt_token's try block (jwt_auth.py:209).
jwks_raise(c) ==
    IF call[c].op = "get_jwks"
    THEN Finish(c, ServiceUnavailable)
    ELSE Finish(c, validate_except(ServiceUnavailable))

\* oidc.py:150-157; jwks_except_raise raises whatever is cached, and
\* jwks_except_erase drops the cached keys before it does.
jwks_except_raise(c) ==
    /\ pc[c] = "jwks_except"
    /\ jwks_raise(c)
    /\ UNCHANGED <<dbvars, key_out_since, DEVELOPMENT_MODE, now, published, oidc_config, jwks,
                   jwks_last_updated, discReqs, ncalls>>

jwks_except_erase(c) ==
    /\ pc[c] = "jwks_except"
    /\ jwks' = None
    /\ jwks_raise(c)
    /\ UNCHANGED <<dbvars, key_out_since, DEVELOPMENT_MODE, now, published, oidc_config,
                   jwks_last_updated, discReqs, ncalls>>

\* jwks_except_retry issues the JWKS request a second time after a first
\* failure; jwks_except_backoff stamps the cache when it serves stale keys.
jwks_except_retry(c) ==
    /\ pc[c] = "jwks_except"
    /\ IF call[c].nJwks = 1
       THEN /\ call' = [call EXCEPT ![c].nJwks = @ + 1]
            /\ pc' = [pc EXCEPT ![c] = "jwks_response"]
       ELSE IF IsNone(jwks)
            THEN jwks_raise(c)
            ELSE /\ pc' = [pc EXCEPT ![c] = "jwks_return"]
                 /\ UNCHANGED call
    /\ UNCHANGED <<dbvars, key_out_since, DEVELOPMENT_MODE, now, published, oidc_config,
                   jwks, jwks_last_updated, discReqs, ncalls>>

jwks_except_backoff(c) ==
    /\ pc[c] = "jwks_except"
    /\ IF IsNone(jwks)
       THEN /\ jwks_raise(c)
            /\ UNCHANGED jwks_last_updated
       ELSE /\ pc' = [pc EXCEPT ![c] = "jwks_return"]
            /\ jwks_last_updated' = Some(call[c].current_time)
            /\ UNCHANGED call
    /\ UNCHANGED <<dbvars, key_out_since, DEVELOPMENT_MODE, now, published, oidc_config,
                   jwks, discReqs, ncalls>>

jwks_except(c) ==
    /\ pc[c] = "jwks_except"
    /\ IF IsNone(jwks)
       THEN jwks_raise(c)
       ELSE /\ pc' = [pc EXCEPT ![c] = "jwks_return"]
            /\ UNCHANGED call
    /\ UNCHANGED <<dbvars, key_out_since, DEVELOPMENT_MODE, now, published, oidc_config, jwks,
                   jwks_last_updated, discReqs, ncalls>>

\* oidc.py:159 and, inside validate_jwt_token, jwt_auth.py:180-215.
\* jwks_return_drop_on_failure is validate_jwt_token dropping the cached
\* keys when the token is rejected.
jwks_return_drop_on_failure(c) ==
    /\ pc[c] = "jwks_return"
    /\ IF call[c].op = "get_jwks"
       THEN /\ Finish(c, [kind |-> "returned", val |-> jwks])
            /\ UNCHANGED <<jwks, jwks_last_updated>>
       ELSE LET r == validate_tail(call[c].token,
                                   get_unverified_header(call[c].token),
                                   jwks, now) IN
            /\ call' = [call EXCEPT ![c].jwks_value = jwks, ![c].result = r]
            /\ pc' = [pc EXCEPT ![c] = "done"]
            /\ IF r.kind = "HTTPException"
               THEN jwks' = None /\ jwks_last_updated' = None
               ELSE UNCHANGED <<jwks, jwks_last_updated>>
    /\ UNCHANGED <<dbvars, key_out_since, DEVELOPMENT_MODE, now, published, oidc_config,
                   discReqs, ncalls>>

jwks_return(c) ==
    /\ pc[c] = "jwks_return"
    /\ IF call[c].op = "get_jwks"
       THEN Finish(c, [kind |-> "returned", val |-> jwks])
       ELSE /\ call' = [call EXCEPT
                          ![c].jwks_value = jwks,
                          ![c].result = validate_tail(call[c].token,
                                            get_unverified_header(call[c].token),
                                            jwks, now)]
            /\ pc' = [pc EXCEPT ![c] = "done"]
    /\ UNCHANGED <<dbvars, key_out_since, DEVELOPMENT_MODE, now, published, oidc_config, jwks,
                   jwks_last_updated, discReqs, ncalls>>

\* ------------------------------------------------------- database sessions
SessionFunctions == {"get_database_session", "database_session_context"}

\* Exceptions the code using the session may raise: subclasses of Exception,
\* and BaseExceptions that are not (GeneratorExit is raised at the yield
\* when the generator is closed without being resumed).
BodyExceptions == {"ValueError"}
BodyBaseExceptions == {"KeyboardInterrupt", "GeneratorExit"}

\* session.py:141-155 and 161-171: the engine and the session factory are
\* created on first use.
create_database_engine == IF IsNone(engine) THEN Some("engine") ELSE engine

create_session_factory ==
    IF IsNone(session_factory) THEN Some("sessionmaker") ELSE session_factory

\* session.py:179-185 and 200-206: the engine, the factory, a new session,
\* and the yield.
session_enter(c, fn) ==
    /\ db[c].at \in {"idle", "done"}
    /\ db[c].uses < MaxUses
    /\ engine' = create_database_engine
    /\ session_factory' = create_session_factory
    /\ db' = [db EXCEPT ![c] =
                 [IdleSession EXCEPT !.fn = fn, !.at = "body",
                                     !.uses = db[c].uses + 1]]
    /\ UNCHANGED authvars

\* The code using the session ends: it returns (the generator is resumed),
\* or an exception is raised at the yield.
session_body(c) ==
    /\ db[c].at = "body"
    /\ \/ db' = [db EXCEPT ![c].body = "returned", ![c].at = "commit"]
       \/ \E e \in BodyExceptions :
             db' = [db EXCEPT ![c].body = e, ![c].exc = e, ![c].at = "except"]
       \/ \E e \in BodyBaseExceptions :
             db' = [db EXCEPT ![c].body = e, ![c].exc = e, ![c].at = "finally"]
    /\ UNCHANGED <<authvars, engine, session_factory>>

\* session.py:186 and 207: session.commit(), which may raise.
session_commit(c) ==
    /\ db[c].at = "commit"
    /\ \/ db' = [db EXCEPT ![c].commits = @ + 1, ![c].at = "finally"]
       \/ db' = [db EXCEPT ![c].commits = @ + 1, ![c].commit_raised = TRUE,
                           ![c].exc = "IntegrityError", ![c].at = "except"]
    /\ UNCHANGED <<authvars, engine, session_factory>>

\* session.py:187-190 and 208-211: except Exception: session.rollback(),
\* which may raise, then raise.
session_rollback(c) ==
    /\ db[c].at = "except"
    /\ \/ db' = [db EXCEPT ![c].rollbacks = @ + 1, ![c].at = "finally"]
       \/ db' = [db EXCEPT ![c].rollbacks = @ + 1, ![c].rollback_raised = TRUE,
                           ![c].exc = "OperationalError", ![c].at = "finally"]
    /\ UNCHANGED <<authvars, engine, session_factory>>

\* session.py:191-192 and 212-213: finally: session.close();
\* session_close_on_success closes only when nothing is being raised.
session_close_on_success(c) ==
    /\ db[c].at = "finally"
    /\ db' = [db EXCEPT ![c].closes = IF db[c].exc = "none" THEN @ + 1 ELSE @,
                        ![c].propagated = db[c].exc,
                        ![c].at = "done"]
    /\ UNCHANGED <<authvars, engine, session_factory>>

session_close(c) ==
    /\ db[c].at = "finally"
    /\ db' = [db EXCEPT ![c].closes = @ + 1,
                        ![c].propagated = db[c].exc,
                        ![c].at = "done"]
    /\ UNCHANGED <<authvars, engine, session_factory>>

\* ---------------------------------------------------------- specifications
Step(c, tokens) ==
    \/ CallGetOidcConfiguration(c)
    \/ CallGetJwks(c)
    \/ CallValidateJwtToken(c, tokens)
    \/ clear_cache(c)
    \/ oidc_response(c)
    \/ oidc_return(c)
    \/ jwks_response(c)
    \/ jwks_stamp(c)
    \/ jwks_except(c)
    \/ jwks_return(c)

\* One event loop: the functions never suspend (requests.get blocks), so
\* calls run one after another; they are all run as the first caller.
Next ==
    \/ Tick
    \/ Rotate
    \/ Step(1, Tokens)
    \/ create_mock_user(1)

Spec == Init /\ [][Next]_vars

\* Callers on several threads: the steps of their calls interleave.  The
\* calls overlap within one reading of the clock, and validate one token.
ConcTokens == {GoodToken("k1", "m1", "u1")}

NextConc ==
    \/ Rotate
    \/ \E c \in Callers : Step(c, ConcTokens)

SpecConc == Init /\ [][NextConc]_vars

\* One event loop again, validating one token, with the provider's
\* rotations of K1 timed.
NextStale ==
    \/ Tick
    \/ RotateObserved
    \/ Step(1, ConcTokens)

SpecStale == Init /\ [][NextStale]_vars

\* The callers' uses of database sessions.
NextDb ==
    \E c \in Callers :
        \/ \E fn \in SessionFunctions : session_enter(c, fn)
        \/ session_body(c)
        \/ session_commit(c)
        \/ session_rollback(c)
        \/ session_close(c)

SpecDb == Init /\ [][NextDb]_vars

\* ----------------------------------------------------------------- claims
Done(c, opname) == pc[c] = "done" /\ call[c].op = opname

Returned(v) == [kind |-> "returned", val |-> v]

\* The scope string holds the word w.
HasWord(scope, w) ==
    \E i \in 1..Len(scope) :
        /\ scope[i] = w
        /\ (i = 1 \/ scope[i - 1] = " ")
        /\ (i = Len(scope) \/ scope[i + 1] = " ")

\* The key set holds, as the key the token's kid names, the key that signed it.
SignedByKeyIn(t, keys) ==
    \E i \in 1..Len(keys) :
        /\ keys[i].kid = t.kid
        /\ keys[i].mat = t.sig
        /\ \A j \in 1..(i - 1) : keys[j].kid # t.kid

\* A token that meets every condition of validate, against the key set keys
\* at clock value t.
ValidToken(t, keys, time) ==
    /\ t.wf
    /\ t.kid # ""
    /\ t.alg = JWT_ALGORITHM
    /\ SignedByKeyIn(t, keys)
    /\ t.exp >= time
    /\ t.iss = OIDC_AUTHORITY
    /\ t.aud = OIDC_AUDIENCE
    /\ t.sub # ""
    /\ HasWord(t.scope, "bookverse:api")

\* C1: a token signed with the key its kid names in the key set validate
\* works with, unexpired, with the expected issuer and audience, a sub and
\* the mandatory scope, makes validate return an Identity whose userId is
\* the token's sub.
C1_ValidTokenAccepted ==
    \A c \in Callers :
        ( /\ Done(c, "validate_jwt_token")
          /\ ~IsNone(call[c].jwks_value)
          /\ ValidToken(call[c].token, call[c].jwks_value.val, now) )
        => /\ call[c].result.kind = "AuthUser"
           /\ call[c].result.user.user_id = call[c].token.sub

C1_Witness ==
    \E c \in Callers :
        /\ Done(c, "validate_jwt_token")
        /\ ~IsNone(call[c].jwks_value)
        /\ Len(call[c].jwks_value.val) = 2
        /\ call[c].token.kid = "k2"
        /\ ValidToken(call[c].token, call[c].jwks_value.val, now)
        /\ call[c].result.kind = "AuthUser"

\* C3: a get_jwks call whose refresh failed while a non-empty key set was
\* cached returns exactly that key set and does not fail.
C3_StaleServed ==
    \A c \in Callers :
        ( /\ Done(c, "get_jwks")
          /\ call[c].failed
          /\ ~IsNone(call[c].s_jwks)
          /\ call[c].s_jwks.val # <<>> )
        => call[c].result = Returned(call[c].s_jwks)

C3_Witness ==
    \E c \in Callers :
        /\ Done(c, "get_jwks")
        /\ call[c].failed
        /\ call[c].nJwks = 1
        /\ ~IsNone(call[c].s_jwks)
        /\ call[c].s_jwks.val # <<>>
        /\ call[c].result = Returned(call[c].s_jwks)

\* C7: get_jwks issues a JWKS request only if no key set was cached or the
\* cached one was older than JWKS_CACHE_DURATION; with a cached key set
\* that is not older, it issues no request at all and returns the cached set.
FreshAtEntry(c) ==
    /\ ~IsNone(call[c].s_jwks)
    /\ ~IsNone(call[c].s_last)
    /\ call[c].current_time - call[c].s_last.val <= JWKS_CACHE_DURATION

C7_RefreshOnlyWhenDue ==
    \A c \in Callers :
        call[c].op = "get_jwks" =>
            /\ call[c].nJwks > 0 =>
                  \/ IsNone(call[c].s_jwks)
                  \/ /\ ~IsNone(call[c].s_last)
                     /\ call[c].current_time - call[c].s_last.val > JWKS_CACHE_DURATION
            /\ (pc[c] = "done" /\ FreshAtEntry(c)) =>
                  /\ call[c].nJwks = 0
                  /\ call[c].nDisc = 0
                  /\ call[c].result = Returned(call[c].s_jwks)

C7_Witness ==
    \E c \in Callers :
        /\ Done(c, "get_jwks")
        /\ FreshAtEntry(c)
        /\ call[c].current_time - call[c].s_last.val = JWKS_CACHE_DURATION
        /\ call[c].nJwks = 0
        /\ call[c].result = Returned(call[c].s_jwks)

\* The kids of a key list.
Kids(keys) == {keys[i].kid : i \in 1..Len(keys)}

\* validate_jwt_token's failure for a key id no cached key carries.
UnknownSigningKey(r) ==
    /\ r.kind = "HTTPException"
    /\ r.status_code = 401
    /\ r.cause = "No matching key found for kid"

\* C2: a validate call for a token whose kid is absent from the cached key
\* set issues exactly one JWKS request (the forced refresh) and, the kid
\* still being absent, fails as UnknownSigningKey.
C2_OneForcedRefresh ==
    \A c \in Callers :
        ( /\ Done(c, "validate_jwt_token")
          /\ call[c].token.wf
          /\ call[c].token.kid # ""
          /\ ~IsNone(call[c].s_jwks)
          /\ call[c].token.kid \notin Kids(call[c].s_jwks.val) )
        => /\ call[c].nJwks = 1
           /\ ( /\ ~IsNone(call[c].jwks_value)
                /\ call[c].token.kid \notin Kids(call[c].jwks_value.val) )
              => UnknownSigningKey(call[c].result)

NonEmpty(o) == ~IsNone(o) /\ o.val # <<>>

ClearStep == \E c \in Callers : clear_cache(c)

FetchedStep ==
    \E c \in Callers :
        /\ pc[c] = "jwks_response"
        /\ pc'[c] = "jwks_stamp"
        /\ jwks' = Some(published)

StampStep ==
    \E c \in Callers :
        /\ pc[c] = "jwks_stamp"
        /\ jwks_last_updated' = Some(call[c].current_time)

\* C4 as claimed: once the cached key set is non-empty, no step replaces it
\* by an empty or absent one.
C4_NeverEmptied == [][NonEmpty(jwks) => NonEmpty(jwks')]_vars

\* C4 as amended: a cached key set changes only by clear_cache or by the
\* assignment of a successfully fetched key list, and its timestamp only by
\* clear_cache or the assignment after such a fetch; a failed refresh
\* changes neither.
C4_OnlyClearOrFetchReplaces ==
    [][ /\ jwks' # jwks => (ClearStep \/ FetchedStep)
        /\ jwks_last_updated' # jwks_last_updated => (ClearStep \/ StampStep)
        /\ (\E c \in Callers : call'[c].failed /\ ~call[c].failed) =>
              (jwks' = jwks /\ jwks_last_updated' = jwks_last_updated) ]_vars

C4_Witness ==
    \E c \in Callers :
        /\ Done(c, "get_jwks")
        /\ call[c].failed
        /\ NonEmpty(call[c].s_jwks)
        /\ jwks = call[c].s_jwks
        /\ jwks_last_updated = call[c].s_last

\* C5: callers that enter get_jwks together with no key set cached issue
\* one JWKS request between them and return the same key set.
C5_SingleFlight ==
    \A c, d \in Callers :
        ( /\ Overlap(c, d)
          /\ call[c].op = "get_jwks" /\ call[d].op = "get_jwks"
          /\ IsNone(call[c].s_jwks) /\ IsNone(call[d].s_jwks) )
        => /\ call[c].nJwks + call[d].nJwks <= 1
           /\ ( /\ pc[c] = "done" /\ pc[d] = "done"
                /\ call[c].result.kind = "returned"
                /\ call[d].result.kind = "returned" )
              => /\ call[c].nJwks + call[d].nJwks = 1
                 /\ call[c].result = call[d].result

\* C6 as claimed: after a get_oidc_configuration call, one discovery
\* request has been issued since the cache was last cleared.
C6_ExactlyOneRequest ==
    \A c \in Callers :
        Done(c, "get_oidc_configuration") => discReqs = 1

C6_PerCall ==
    \A c \in Callers :
        call[c].op = "get_oidc_configuration" =>
            /\ call[c].nDisc <= 1
            /\ ~IsNone(call[c].s_oidc) => call[c].nDisc = 0
            /\ pc[c] = "done" =>
                  /\ ~IsNone(call[c].s_oidc) =>
                        call[c].result = Returned(call[c].s_oidc)
                  /\ call[c].result.kind = "returned" =>
                        /\ ~IsNone(oidc_config)
                        /\ call[c].result.val = oidc_config
                  /\ (DEVELOPMENT_MODE \/ call[c].result.kind = "returned")
                        => discReqs >= 1
                  /\ DEVELOPMENT_MODE => discReqs = 1

\* C6 as amended: a call issues at most one discovery request; once a
\* document is cached no call issues another and every call returns that
\* document, until clear_cache; a failed request with development mode off
\* caches nothing, so exactly one request is certain only with development
\* mode on.
C6_MemoizedOnceFetched ==
    /\ []C6_PerCall
    /\ [][ ~IsNone(oidc_config) =>
              \/ oidc_config' = oidc_config /\ discReqs' = discReqs
              \/ ClearStep ]_vars

C6_Witness ==
    \E c \in Callers :
        /\ Done(c, "get_oidc_configuration")
        /\ ~IsNone(call[c].s_oidc)
        /\ call[c].nDisc = 0
        /\ discReqs = 1
        /\ call[c].result = Returned(call[c].s_oidc)

\* C8: with development mode off, a get_oidc_configuration call whose
\* discovery request fails raises 503 and caches nothing, and no
\* demo-marked document is ever cached or returned.
C8_NoSyntheticInProduction ==
    ~DEVELOPMENT_MODE =>
        /\ IsNone(oidc_config) \/ ~oidc_config.val.demo_mode
        /\ \A c \in Callers :
              Done(c, "get_oidc_configuration") =>
                  /\ call[c].result.kind = "returned" =>
                        /\ ~IsNone(call[c].result.val)
                        /\ ~call[c].result.val.val.demo_mode
                  /\ call[c].disc_failed =>
                        /\ call[c].result.kind = "HTTPException"
                        /\ call[c].result.status_code = 503
                        /\ IsNone(oidc_config)

C8_Witness ==
    \E c \in Callers :
        /\ ~DEVELOPMENT_MODE
        /\ Done(c, "get_oidc_configuration")
        /\ call[c].disc_failed
        /\ call[c].result.kind = "HTTPException"
        /\ IsNone(oidc_config)

\* C9: with development mode on, a get_oidc_configuration call whose
\* discovery request fails returns a demo-marked document whose issuer is
\* the authority and whose jwks_uri is the authority's /.well-known/jwks.json.
C9_SyntheticInDevelopment ==
    DEVELOPMENT_MODE =>
        \A c \in Callers :
            (Done(c, "get_oidc_configuration") /\ call[c].disc_failed) =>
                /\ call[c].result.kind = "returned"
                /\ ~IsNone(call[c].result.val)
                /\ call[c].result.val.val.demo_mode
                /\ call[c].result.val.val.issuer = "https://dev-auth.bookverse.com"
                /\ call[c].result.val.val.jwks_uri =
                       "https://dev-auth.bookverse.com/.well-known/jwks.json"

C9_Witness ==
    \E c \in Callers :
        /\ DEVELOPMENT_MODE
        /\ Done(c, "get_oidc_configuration")
        /\ call[c].disc_failed
        /\ call[c].result.kind = "returned"

\* C10: a validate call for a well-formed token that finds no key set
\* cached and whose discovery or JWKS request fails, development mode off,
\* fails with status 503.
C10_Surfaces503 ==
    \A c \in Callers :
        ( /\ ~DEVELOPMENT_MODE
          /\ Done(c, "validate_jwt_token")
          /\ call[c].token.wf
          /\ IsNone(call[c].s_jwks)
          /\ call[c].failed )
        => /\ call[c].result.kind = "HTTPException"
           /\ call[c].result.status_code = 503

\* A validate call returns or raises in this step.
ValidateEnds(c) ==
    /\ call'[c].op = "validate_jwt_token"
    /\ pc'[c] = "done"
    /\ (pc[c] # "done" \/ ncalls' = ncalls + 1)

\* C11: validate returns an Identity only in a step at which the token is
\* well formed, names the expected algorithm, is signed by the key its kid
\* selects from the key set in hand, is not expired at the clock of that
\* step and carries the expected issuer and audience; the Identity is built
\* from that token's claims.
C11_IdentityOnlyAfterChecks ==
    [][ \A c \in Callers :
          (ValidateEnds(c) /\ call'[c].result.kind = "AuthUser") =>
              /\ call'[c].token.wf
              /\ ~IsNone(call'[c].jwks_value)
              /\ call'[c].token.alg = JWT_ALGORITHM
              /\ SignedByKeyIn(call'[c].token, call'[c].jwks_value.val)
              /\ call'[c].token.exp >= now
              /\ call'[c].token.iss = OIDC_AUTHORITY
              /\ call'[c].token.aud = OIDC_AUDIENCE
              /\ call'[c].result.user.user_id = call'[c].token.sub
              /\ call'[c].result.user.claims.exp = call'[c].token.exp ]_vars

C11_Witness ==
    \E c \in Callers :
        /\ Done(c, "validate_jwt_token")
        /\ call[c].token.exp = 1
        /\ now = 1
        /\ call[c].result.kind = "AuthUser"

\* The token passes signature, algorithm, expiry, issuer and audience
\* verification against the key list keys at clock value time.
Verified(t, keys, time) ==
    /\ t.wf
    /\ t.kid # ""
    /\ t.alg = JWT_ALGORITHM
    /\ SignedByKeyIn(t, keys)
    /\ t.exp >= time
    /\ t.iss = OIDC_AUTHORITY
    /\ t.aud = OIDC_AUDIENCE

Rejected(r, cause) ==
    /\ r.kind = "HTTPException"
    /\ r.status_code = 401
    /\ r.cause = cause

MissingRequiredScope(r) ==
    Rejected(r, "Token missing required 'bookverse:api' scope")

MalformedToken(r) ==
    \/ Rejected(r, "Error decoding token headers.")
    \/ Rejected(r, "Token header missing 'kid' field")
    \/ Rejected(r, "Token missing 'sub' claim")

InvalidSignatureOrClaims(r) ==
    /\ r.kind = "HTTPException"
    /\ r.status_code = 401
    /\ r.detail = "Invalid authentication token"
    /\ r.cause \in {"The specified alg value is not allowed",
                     "Signature verification failed.",
                     "Signature has expired.",
                     "Invalid audience", "Invalid issuer"}

\* C12: a verified token with a sub whose scope string lacks the word
\* bookverse:api (absent, empty or holding other words only) yields no
\* Identity: validate raises 401 for the missing scope.
C12_MissingScopeRejected ==
    \A c \in Callers :
        ( /\ Done(c, "validate_jwt_token")
          /\ ~IsNone(call[c].jwks_value)
          /\ Verified(call[c].token, call[c].jwks_value.val, now)
          /\ call[c].token.sub # ""
          /\ ~HasWord(call[c].token.scope, "bookverse:api") )
        => MissingRequiredScope(call[c].result)

C12_Witness ==
    \E c \in Callers :
        /\ Done(c, "validate_jwt_token")
        /\ ~IsNone(call[c].jwks_value)
        /\ Verified(call[c].token, call[c].jwks_value.val, now)
        /\ call[c].token.scope = <<"bookverse:api", "x">>
        /\ MissingRequiredScope(call[c].result)

\* C13: a token signed by the key its kid selects, with the expected
\* algorithm, that is expired when the call starts or carries another
\* issuer or audience, is rejected by the JWTError handler (401 "Invalid
\* authentication token") for a verification failure, which is none of the
\* failures raised for a malformed token, an unknown key or a missing scope.
C13_VerificationFailureKind ==
    \A c \in Callers :
        ( /\ Done(c, "validate_jwt_token")
          /\ ~IsNone(call[c].jwks_value)
          /\ call[c].token.wf
          /\ call[c].token.kid # ""
          /\ call[c].token.alg = JWT_ALGORITHM
          /\ SignedByKeyIn(call[c].token, call[c].jwks_value.val)
          /\ \/ call[c].token.exp < call[c].current_time
             \/ call[c].token.iss # OIDC_AUTHORITY
             \/ call[c].token.aud # OIDC_AUDIENCE )
        => /\ InvalidSignatureOrClaims(call[c].result)
           /\ call[c].result.cause \in
                  {"Signature has expired.", "Invalid audience", "Invalid issuer"}
           /\ ~MalformedToken(call[c].result)
           /\ ~UnknownSigningKey(call[c].result)
           /\ ~MissingRequiredScope(call[c].result)

C13_Witness ==
    \E c \in Callers :
        /\ Done(c, "validate_jwt_token")
        /\ ~IsNone(call[c].jwks_value)
        /\ SignedByKeyIn(call[c].token, call[c].jwks_value.val)
        /\ call[c].token.exp < call[c].current_time
        /\ call[c].result.cause = "Signature has expired."

\* The position of the first key of keys that carries kid (0 if none does).
FirstWithKid(keys, kid) ==
    IF kid \in Kids(keys)
    THEN CHOOSE i \in 1..Len(keys) :
            /\ keys[i].kid = kid
            /\ \A j \in 1..(i - 1) : keys[j].kid # kid
    ELSE 0

\* What get_public_key answers for the token and key set of a validate call.
Selected(c) ==
    get_public_key(get_unverified_header(call[c].token), call[c].jwks_value)

C14_PerCall ==
    \A c \in Callers :
        ( /\ Done(c, "validate_jwt_token")
          /\ call[c].token.wf
          /\ call[c].token.kid # ""
          /\ ~IsNone(call[c].jwks_value) )
        => LET keys == call[c].jwks_value.val
               kid == call[c].token.kid
               i == FirstWithKid(keys, kid)
           IN IF i = 0
              THEN /\ Selected(c).kind = "ValueError"
                   /\ Selected(c).msg = "No matching key found for kid"
                   /\ UnknownSigningKey(call[c].result)
              ELSE /\ Selected(c).kind = "key"
                   /\ Selected(c).key = keys[i]
                   /\ Selected(c).key.kid = kid
                   /\ ( /\ call[c].token.alg = JWT_ALGORITHM
                        /\ keys[i].mat # call[c].token.sig )
                      => Rejected(call[c].result, "Signature verification failed.")

\* C14: for a header with a kid, get_public_key answers with the first key
\* in stored order that carries the kid, and with the no-matching-key error
\* when none does (validate then fails as UnknownSigningKey); a token signed
\* by any other key of the set is rejected, and the step in which validate
\* selects the key changes none of the caches.
C14_FirstMatchingKey ==
    /\ []C14_PerCall
    /\ [][ \A c \in Callers :
              (call[c].op = "validate_jwt_token" /\ pc[c] = "jwks_return") =>
                  /\ oidc_config' = oidc_config
                  /\ jwks' = jwks
                  /\ jwks_last_updated' = jwks_last_updated ]_vars

C14_Witness ==
    \E c \in Callers :
        /\ Done(c, "validate_jwt_token")
        /\ call[c].jwks_value = Some(<<K1x, K1>>)
        /\ call[c].token.kid = "k1"
        /\ call[c].token.sig = "m1"
        /\ Selected(c).key = K1x
        /\ Rejected(call[c].result, "Signature verification failed.")

\* The Identity of create_mock_user.
IsMockIdentity(r) ==
    /\ r.kind = "AuthUser"
    /\ r.user.user_id = "dev-user"
    /\ r.user.roles = <<"user", "admin">>

\* C15: with authentication enabled and development mode off, no call
\* yields the development Identity (sub dev-user, roles user and admin).
C15_NoMockIdentityWhenOff ==
    (is_auth_enabled /\ ~is_development_mode) =>
        \A c \in Callers :
            pc[c] = "done" => ~IsMockIdentity(call[c].result)

\* C16 as claimed: the get_jwks call that follows clear_cache issues a JWKS
\* request, and the get_oidc_configuration call that follows it a
\* discovery request.
C16_NextCallFetches ==
    \A c \in Callers :
        call[c].after_clear =>
            /\ Done(c, "get_jwks") => call[c].nJwks >= 1
            /\ Done(c, "get_oidc_configuration") => call[c].nDisc >= 1

\* C16 as amended: the get_jwks or get_oidc_configuration call that follows
\* clear_cache issues one discovery request, however young the cleared key
\* set was; get_jwks then issues one JWKS request unless discovery gave it
\* no jwks_uri (it failed with development mode off, or the document has
\* none), and it returns only keys fetched by that request.
C16_NextCallRefetches ==
    \A c \in Callers :
        (call[c].after_clear /\ call[c].op \in {"get_jwks", "get_oidc_configuration"}) =>
            /\ call[c].nDisc = 1
            /\ IsNone(call[c].s_jwks) /\ IsNone(call[c].s_oidc)
            /\ Done(c, "get_jwks") =>
                  /\ \/ call[c].nJwks = 1
                     \/ call[c].disc_failed /\ ~DEVELOPMENT_MODE
                     \/ ~IsNone(oidc_config) /\ oidc_config.val.jwks_uri = ""
                  /\ call[c].result.kind = "returned" =>
                        (call[c].nJwks = 1 /\ ~call[c].failed)

C16_Witness ==
    \E c \in Callers :
        /\ Done(c, "get_jwks")
        /\ call[c].after_clear
        /\ call[c].cleared_fresh
        /\ call[c].nDisc = 1
        /\ call[c].nJwks = 1
        /\ call[c].result.kind = "returned"

\* C17: a token signed with K1 is accepted only by calls that start no
\* later than JWKS_CACHE_DURATION after the provider stopped publishing K1.
C17_BoundedStaleness ==
    \A c \in Callers :
        ( /\ Done(c, "validate_jwt_token")
          /\ call[c].result.kind = "AuthUser"
          /\ call[c].token.kid = K1.kid /\ call[c].token.sig = K1.mat
          /\ ~IsNone(key_out_since) )
        => call[c].current_time - key_out_since.val <= JWKS_CACHE_DURATION

\* C18: a validate call that finds a cached key set not yet due for a
\* refresh and without the token's kid, while the provider publishes the
\* key and the token is otherwise valid, refetches and returns an Identity.
C18_RotationRecovery ==
    \A c \in Callers :
        ( /\ Done(c, "validate_jwt_token")
          /\ FreshAtEntry(c)
          /\ call[c].token.kid \notin Kids(call[c].s_jwks.val)
          /\ ValidToken(call[c].token, published, now) )
        => /\ call[c].result.kind = "AuthUser"
           /\ call[c].nJwks >= 1

\* C19: validate parses the header first (a malformed header ends the call
\* with no request issued and no cache touched), then fetches the keys (a
\* failed fetch is raised whatever the token holds), then selects the key,
\* then verifies, then tests sub, then tests the scope: a verified token
\* with neither sub nor the scope fails for the missing sub.
C19_StepOrder ==
    \A c \in Callers :
        Done(c, "validate_jwt_token") =>
            LET t == call[c].token
                r == call[c].result
                v == call[c].jwks_value
            IN /\ ~t.wf =>
                    /\ Rejected(r, "Error decoding token headers.")
                    /\ call[c].nDisc = 0 /\ call[c].nJwks = 0
                    /\ oidc_config = call[c].s_oidc
                    /\ jwks = call[c].s_jwks
                    /\ jwks_last_updated = call[c].s_last
               /\ (t.wf /\ IsNone(v)) => Rejected(r, "HTTPException 503")
               /\ (t.wf /\ ~IsNone(v) /\ t.kid = "") =>
                      Rejected(r, "Token header missing 'kid' field")
               /\ (t.wf /\ ~IsNone(v) /\ t.kid # "" /\ t.kid \notin Kids(v.val)) =>
                      UnknownSigningKey(r)
               /\ (t.wf /\ ~IsNone(v) /\ t.kid \in Kids(v.val)
                        /\ ~Verified(t, v.val, call[c].current_time)) =>
                      InvalidSignatureOrClaims(r)
               /\ (~IsNone(v) /\ Verified(t, v.val, now) /\ t.sub = "") =>
                      Rejected(r, "Token missing 'sub' claim")

C19_Witness ==
    \E c \in Callers :
        /\ Done(c, "validate_jwt_token")
        /\ ~IsNone(call[c].jwks_value)
        /\ Verified(call[c].token, call[c].jwks_value.val, now)
        /\ call[c].token.sub = ""
        /\ ~HasWord(call[c].token.scope, "bookverse:api")
        /\ Rejected(call[c].result, "Token missing 'sub' claim")

\* C20: validate returns an Identity only for a token whose iss is the
\* issuer of the cached discovery document.
C20_IssuerIsDiscovered ==
    \A c \in Callers :
        ( /\ Done(c, "validate_jwt_token")
          /\ call[c].result.kind = "AuthUser"
          /\ ~IsNone(oidc_config) )
        => call[c].token.iss = oidc_config.val.issuer

\* All three caches are empty.
CacheEmpty ==
    /\ IsNone(oidc_config)
    /\ IsNone(jwks)
    /\ IsNone(jwks_last_updated)

\* C21: after a clear_cache that ran while another caller's call was in
\* progress, and before any call is started after it, the caches are empty:
\* the call that was in progress puts nothing back.
C21_ClearNotUndone ==
    \A c, d \in Callers :
        ( /\ c # d
          /\ Done(d, "clear_cache")
          /\ c \in call[d].active )
        => CacheEmpty

\* C22: callers that are inside get_oidc_configuration together, having
\* found no document cached, issue one discovery request between them and
\* return the same document.
C22_SingleFlightDiscovery ==
    \A c, d \in Callers :
        ( /\ Overlap(c, d)
          /\ call[c].op = "get_oidc_configuration"
          /\ call[d].op = "get_oidc_configuration"
          /\ IsNone(call[c].s_oidc) /\ IsNone(call[d].s_oidc) )
        => /\ call[c].nDisc + call[d].nDisc <= 1
           /\ ( /\ pc[c] = "done" /\ pc[d] = "done"
                /\ call[c].result.kind = "returned"
                /\ call[d].result.kind = "returned" )
              => /\ call[c].nDisc + call[d].nDisc = 1
                 /\ call[c].result = call[d].result

\* C23: the key set and its timestamp are replaced together, so a call
\* that reads the cache finds either both or neither.
C23_NoTornRead ==
    \A c \in Callers :
        call[c].op \in {"get_jwks", "validate_jwt_token"} =>
            (IsNone(call[c].s_jwks) <=> IsNone(call[c].s_last))

\* C24: no call issues more than one discovery request, and no get_jwks,
\* get_oidc_configuration or validate call more than one JWKS request (the
\* second JWKS request allowed to validate is never issued), whether the
\* provider answers or fails.
C24_NoRetries ==
    \A c \in Callers :
        /\ call[c].nDisc <= 1
        /\ call[c].nJwks <= 1
        /\ call[c].op = "get_oidc_configuration" => call[c].nJwks = 0
        /\ call[c].op = "validate_jwt_token" => call[c].nJwks <= 2

C24_Witness ==
    \E c \in Callers :
        /\ Done(c, "validate_jwt_token")
        /\ call[c].nDisc = 1
        /\ call[c].nJwks = 1
        /\ call[c].failed
        /\ Rejected(call[c].result, "HTTPException 503")

\* C25: for a header without a kid get_public_key raises the missing-kid
\* error whatever the key set holds, a single key included, and validate
\* is rejected for it without any key being selected.
C25_MissingKidRejected ==
    \A c \in Callers :
        ( /\ Done(c, "validate_jwt_token")
          /\ call[c].token.wf
          /\ call[c].token.kid = ""
          /\ ~IsNone(call[c].jwks_value) )
        => /\ Selected(c).kind = "ValueError"
           /\ Selected(c).msg = "Token header missing 'kid' field"
           /\ Rejected(call[c].result, "Token header missing 'kid' field")
           /\ MalformedToken(call[c].result)

C25_Witness ==
    \E c \in Callers :
        /\ Done(c, "validate_jwt_token")
        /\ call[c].token.kid = ""
        /\ call[c].jwks_value = Some(<<K1>>)
        /\ call[c].token.sig = K1.mat
        /\ Rejected(call[c].result, "Token header missing 'kid' field")

\* No call is in progress.
Quiescent == \A c \in Callers : ~Running(c)

\* C27: between sequential calls the key set is cached exactly when its
\* timestamp is, and a cached key set comes with a cached discovery document.
C27_CachesPresentTogether ==
    Quiescent =>
        /\ IsNone(jwks) <=> IsNone(jwks_last_updated)
        /\ ~IsNone(jwks) => ~IsNone(oidc_config)

C27_Witness ==
    /\ Quiescent
    /\ \E c \in Callers : Done(c, "get_jwks") /\ call[c].failed /\ call[c].nJwks = 1
    /\ ~IsNone(jwks)
    /\ ~IsNone(jwks_last_updated)
    /\ ~IsNone(oidc_config)

\* The key set the call found cached was due for a refresh.
ExpiredAtEntry(c) ==
    /\ ~IsNone(call[c].s_jwks)
    /\ ~IsNone(call[c].s_last)
    /\ call[c].current_time - call[c].s_last.val > JWKS_CACHE_DURATION

\* C28: every get_jwks call that finds an expired key set issues exactly
\* one JWKS request (and no discovery request); if the request fails, the
\* key set and its timestamp stay as they were and the stale set is
\* returned, so the next call finds the cache expired again; if it
\* succeeds, the fetched set is cached, stamped with the call's clock
\* reading and returned.
C28_FailedRefreshKeepsCache ==
    \A c \in Callers :
        (Done(c, "get_jwks") /\ ExpiredAtEntry(c)) =>
            /\ call[c].nJwks = 1
            /\ call[c].nDisc = 0
            /\ call[c].failed =>
                  /\ jwks = call[c].s_jwks
                  /\ jwks_last_updated = call[c].s_last
                  /\ call[c].result = Returned(call[c].s_jwks)
            /\ ~call[c].failed =>
                  /\ jwks_last_updated = Some(call[c].current_time)
                  /\ call[c].result = Returned(jwks)

C28_Witness ==
    \E c \in Callers :
        /\ Done(c, "get_jwks")
        /\ ExpiredAtEntry(c)
        /\ ~call[c].failed
        /\ call[c].nJwks = 1
        /\ jwks # call[c].s_jwks
        /\ jwks_last_updated = Some(call[c].current_time)

\* The call found the synthesised discovery document cached.
DemoAtEntry(c) == ~IsNone(call[c].s_oidc) /\ call[c].s_oidc.val.demo_mode

C29_PerCall ==
    \A c \in Callers :
        ( /\ DemoAtEntry(c)
          /\ call[c].op \in {"get_oidc_configuration", "get_jwks", "validate_jwt_token"} )
        => /\ DEVELOPMENT_MODE
           /\ call[c].nDisc = 0
           /\ oidc_config = call[c].s_oidc
           /\ Done(c, "get_oidc_configuration") =>
                 call[c].result = Returned(call[c].s_oidc)

\* C29: once the synthesised document is cached, every get_oidc_configuration,
\* get_jwks and validate call uses it and issues no discovery request, and
\* it stays cached until clear_cache.
C29_SyntheticMemoized ==
    /\ []C29_PerCall
    /\ [][ (~IsNone(oidc_config) /\ oidc_config.val.demo_mode) =>
              \/ oidc_config' = oidc_config /\ discReqs' = discReqs
              \/ ClearStep ]_vars

C29_Witness ==
    \E c \in Callers :
        /\ Done(c, "get_jwks")
        /\ DemoAtEntry(c)
        /\ call[c].nDisc = 0
        /\ call[c].nJwks = 1
        /\ ~call[c].failed
        /\ oidc_config = call[c].s_oidc

\* The token was rejected for what it holds: by verification, the sub
\* test or the scope test.
ContentFailure(r) ==
    \/ InvalidSignatureOrClaims(r)
    \/ Rejected(r, "Token missing 'sub' claim")
    \/ MissingRequiredScope(r)

\* C30: the step in which validate rejects a token for its content changes
\* no cache, and after the call the cached key set is still the one its
\* key fetch handed it.
C30_ContentFailureKeepsCache ==
    /\ [](\A c \in Callers :
            ( /\ Done(c, "validate_jwt_token")
              /\ ContentFailure(call[c].result) )
            => /\ jwks = call[c].jwks_value
               /\ ~IsNone(jwks_last_updated)
               /\ ~IsNone(oidc_config)
               /\ FreshAtEntry(c) =>
                     /\ jwks = call[c].s_jwks
                     /\ jwks_last_updated = call[c].s_last
                     /\ oidc_config = call[c].s_oidc)
    /\ [][ \A c \in Callers :
              (ValidateEnds(c) /\ ContentFailure(call'[c].result)) =>
                  /\ oidc_config' = oidc_config
                  /\ jwks' = jwks
                  /\ jwks_last_updated' = jwks_last_updated ]_vars

C30_Witness ==
    \E c \in Callers :
        /\ Done(c, "validate_jwt_token")
        /\ Rejected(call[c].result, "Signature has expired.")
        /\ ~FreshAtEntry(c)
        /\ NonEmpty(jwks)
        /\ jwks = call[c].jwks_value

SessionDone(c) == db[c].at = "done"

\* C26 as claimed: the session is closed once; after the code using it
\* returned, commit was called and rollback was not; after it raised,
\* rollback was called, commit was not, and the exception it raised reaches
\* the caller.
C26_CommitOrRollback ==
    \A c \in Callers :
        SessionDone(c) =>
            /\ db[c].closes = 1
            /\ db[c].body = "returned" =>
                  (db[c].commits = 1 /\ db[c].rollbacks = 0)
            /\ db[c].body # "returned" =>
                  /\ db[c].rollbacks = 1
                  /\ db[c].commits = 0
                  /\ db[c].propagated = db[c].body

\* C26 as amended: close is called exactly once, last, on every path.
\* After the code using the session returned, commit is called once, and
\* rollback is called exactly when commit raised.  After it raised an
\* Exception, rollback is called once and commit is not.  After it raised
\* a BaseException that is not an Exception, neither is called.  What
\* reaches the caller is the exception of the code using the session or of
\* commit, unless rollback raised, and then it is rollback's.
C26_SessionLifecycle ==
    \A c \in Callers :
        /\ db[c].closes = (IF SessionDone(c) THEN 1 ELSE 0)
        /\ db[c].commits <= 1 /\ db[c].rollbacks <= 1
        /\ SessionDone(c) =>
              /\ db[c].body = "returned" =>
                    /\ db[c].commits = 1
                    /\ db[c].rollbacks = (IF db[c].commit_raised THEN 1 ELSE 0)
                    /\ ~db[c].commit_raised => db[c].propagated = "none"
                    /\ (db[c].commit_raised /\ ~db[c].rollback_raised) =>
                          db[c].propagated = "IntegrityError"
              /\ db[c].body \in BodyExceptions =>
                    /\ db[c].commits = 0
                    /\ db[c].rollbacks = 1
                    /\ ~db[c].rollback_raised => db[c].propagated = db[c].body
              /\ db[c].body \in BodyBaseExceptions =>
                    /\ db[c].commits = 0
                    /\ db[c].rollbacks = 0
                    /\ db[c].propagated = db[c].body
              /\ db[c].rollback_raised => db[c].propagated = "OperationalError"

C26_Witness ==
    \E c \in Callers :
        /\ SessionDone(c)
        /\ db[c].fn = "get_database_session"
        /\ db[c].body = "returned"
        /\ db[c].commit_raised
        /\ db[c].commits = 1
        /\ db[c].rollbacks = 1
        /\ db[c].closes = 1
        /\ db[c].propagated = "IntegrityError"
====
